---------------------------- MODULE Spec2Model ----------------------------
(***************************************************************************)
(* A model of the @aws-cdk/aws-wafv2 construct library: the managed rule   *)
(* group factories, the WebACL construct (priority assignment, resource    *)
(* association, logging configuration) and the RuleGroup construct.        *)
(*                                                                         *)
(* A JavaScript value that may be undefined (an optional property, a key   *)
(* that is absent) is modelled as a sequence of length 0 (None) or 1       *)
(* (Some(v)).  An object is a record; an object reference is an index into *)
(* the pool of objects the host program has built.                         *)
(***************************************************************************)
EXTENDS Integers, Sequences, FiniteSets, TLC

None == <<>>
Some(v) == <<v>>
IsSome(o) == Len(o) = 1
Get(o) == o[1]
Option(S) == {None} \cup {Some(v) : v \in S}

\* JavaScript truthiness of an optional string: undefined and '' are falsy.
TruthyStr(o) == IsSome(o) /\ Get(o) # ""
\* JavaScript truthiness of an optional boolean.
TruthyBool(o) == IsSome(o) /\ Get(o)

(***************************************************************************)
(* Bounds of the model.                                                    *)
(***************************************************************************)
\* The longest rules sequence handed to a WebACL or a RuleGroup.
MaxRules == 2
\* The longest list of country codes handed to Statement.geoMatch.
MaxCountryCodes == 2
\* The longest list of statements handed to Rule.regular.
MaxStatements == 2
\* The largest capacity a caller gives a RuleGroup.
MaxCapacity == 3

(***************************************************************************)
(* rule-group.ts: RuleAction                                               *)
(*                                                                         *)
(* A RuleActionProperty has the optional keys allow, block, count and      *)
(* captcha; a key the factory did not write is absent.                     *)
(***************************************************************************)
\* RuleAction.allow(customRequestHandling?)
RuleActionAllow(customRequestHandling) ==
  [allow |-> Some([customRequestHandling |-> customRequestHandling]),
   block |-> None, count |-> None, captcha |-> None]

\* RuleAction.block(customResponse?)
RuleActionBlock(customResponse) ==
  [allow |-> None,
   block |-> Some([customResponse |-> customResponse]),
   count |-> None, captcha |-> None]

\* RuleAction.count(customRequestHandling?)
RuleActionCount(customRequestHandling) ==
  [allow |-> None, block |-> None,
   count |-> Some([customRequestHandling |-> customRequestHandling]),
   captcha |-> None]

\* A plausible slip: captcha left out as the Challenge action is, returning
\* an action with no key.
RuleActionCaptchaUnsupported(customRequestHandling) ==
  [allow |-> None, block |-> None, count |-> None, captcha |-> None]

\* RuleAction.captcha(customRequestHandling?)
RuleActionCaptcha(customRequestHandling) ==
  [allow |-> None, block |-> None, count |-> None,
   captcha |-> Some([customRequestHandling |-> customRequestHandling])]

(***************************************************************************)
(* rule-group.ts: Statement, MatchLogic, Rule                              *)
(***************************************************************************)
\* Statement.geoMatch(props):
\*   { GeoMatchStatement: { CountryCodes: props.countryCodes },
\*     ...props.forwardedIpConfiguration }
\* The keys of the forwarded IP configuration are spread into the returned
\* object, beside GeoMatchStatement; the GeoMatchStatement object has the key
\* CountryCodes and no other (ForwardedIPConfig is absent); props.negate is
\* not read.  Nothing is validated and nothing is thrown.
geoMatch(props) ==
  [GeoMatchStatement |->
     [CountryCodes |-> props.countryCodes, ForwardedIPConfig |-> None],
   fallbackBehavior |->
     IF IsSome(props.forwardedIpConfiguration)
     THEN Some(Get(props.forwardedIpConfiguration).fallbackBehavior) ELSE None,
   headerName |->
     IF IsSome(props.forwardedIpConfiguration)
     THEN Some(Get(props.forwardedIpConfiguration).headerName) ELSE None]

MatchLogic == {"MATCH_ONE", "MATCH_ALL", "MATCH_ANY", "MATCH_NONE"}

\* Rule.regular(): declares no parameter, so whatever the caller hands it is
\* not read; its body is `return;`, so it returns undefined and throws
\* nothing.
regular(props) == None

\* Rule.rateBased(): as regular, `return;`.
rateBased(props) == None

\* The host program holding no request handling and no response.
NoActionInput == [customRequestHandling |-> None, customResponse |-> None]

(***************************************************************************)
(* rule-group.ts: ManagedRuleGroup                                         *)
(***************************************************************************)

\* A plausible slip: a default that leaves the CloudWatch metrics off.
DefaultVisibilityMetricsOff(metricName) ==
  [cloudWatchMetricsEnabled |-> FALSE,
   metricName |-> metricName,
   sampledRequestsEnabled |-> TRUE]

\* The default visibility config of a managed rule group.
DefaultVisibility(metricName) ==
  [cloudWatchMetricsEnabled |-> TRUE,
   metricName |-> metricName,
   sampledRequestsEnabled |-> TRUE]

\* An earlier revision handed the caller's overrideAction through, which is
\* undefined when the caller gave none.
OverrideActionPassThrough(overrideToCount) == None

\* props.overrideToCount ? { count: {} } : { none: {} }
\* The object is modelled by the set of its keys.
OverrideAction(overrideToCount) ==
  IF TruthyBool(overrideToCount) THEN Some({"count"}) ELSE Some({"none"})

\* A plausible slip: aws written as thirdParty is, with a statement of
\* vendorName and name only.
awsVendorAndNameOnly(props) ==
  [name |-> IF TruthyStr(props.name) THEN Get(props.name) ELSE props.rule,
   statement |->
     [managedRuleGroupStatement |->
        [vendorName |-> "AWS",
         name |-> props.rule,
         excludedRules |-> None,
         scopeDownStatement |-> None,
         managedRuleGroupConfigs |-> None,
         version |-> None]],
   visibilityConfig |->
     IF IsSome(props.visibilityConfig) THEN Get(props.visibilityConfig)
     ELSE DefaultVisibility("WAF-" \o props.rule),
   overrideAction |-> OverrideAction(props.overrideToCount)]

\* ManagedRuleGroup.aws(props): props carries `rule` beside the options.
aws(props) ==
  [name |-> IF TruthyStr(props.name) THEN Get(props.name) ELSE props.rule,
   statement |->
     [managedRuleGroupStatement |->
        [vendorName |-> "AWS",
         name |-> props.rule,
         excludedRules |-> props.excludedRules,
         scopeDownStatement |-> props.scopeDownStatement,
         managedRuleGroupConfigs |-> props.managedRuleGroupConfigs,
         version |-> props.version]],
   visibilityConfig |->
     IF IsSome(props.visibilityConfig) THEN Get(props.visibilityConfig)
     ELSE DefaultVisibility("WAF-" \o props.rule),
   overrideAction |-> OverrideAction(props.overrideToCount)]

\* ManagedRuleGroup.thirdParty(props): props carries `vendor` and `ruleName`.
\* The statement has the keys vendorName and name only; the other keys of a
\* managed rule group statement are absent.
thirdParty(props) ==
  [name |-> IF TruthyStr(props.name) THEN Get(props.name)
            ELSE props.vendor \o "-" \o props.ruleName,
   statement |->
     [managedRuleGroupStatement |->
        [vendorName |-> props.vendor,
         name |-> props.ruleName,
         excludedRules |-> None,
         scopeDownStatement |-> None,
         managedRuleGroupConfigs |-> None,
         version |-> None]],
   visibilityConfig |->
     IF IsSome(props.visibilityConfig) THEN Get(props.visibilityConfig)
     ELSE DefaultVisibility("WAF-" \o props.vendor \o "-" \o props.ruleName),
   overrideAction |-> OverrideAction(props.overrideToCount)]

\* The AWS-curated factories and the rule group each one names.
AwsRuleOf ==
  [ipReputation    |-> "AWSManagedRulesAmazonIpReputationList",
   adminProtection |-> "AWSManagedRulesAdminProtectionRuleSet",
   knownBadInputs  |-> "AWSManagedRulesKnownBadInputsRuleSet",
   coreRuleSet     |-> "AWSManagedRulesCommonRuleSet",
   sqlInjection    |-> "AWSManagedRulesSQLiRuleSet",
   linux           |-> "AWSManagedRulesLinuxRuleSet",
   posix           |-> "AWSManagedRulesUnixRuleSet",
   windows         |-> "AWSManagedRulesWindowsRuleSet",
   wordpress       |-> "AWSManagedRulesWordPressRuleSet",
   php             |-> "AWSManagedRulesPHPRuleSet",
   anonymousIp     |-> "AWSManagedRulesAnonymousIpList",
   botControl      |-> "AWSManagedRulesBotControlRuleSet",
   accountTakeover |-> "AWSManagedRulesATPRuleSet"]

\* this.aws({ rule: '<rule>', ...props }): an AWS-curated factory.
awsFactory(f, props) ==
  aws([rule |-> AwsRuleOf[f],
       name |-> props.name,
       visibilityConfig |-> props.visibilityConfig,
       overrideToCount |-> props.overrideToCount,
       excludedRules |-> props.excludedRules,
       scopeDownStatement |-> props.scopeDownStatement,
       version |-> props.version,
       managedRuleGroupConfigs |-> props.managedRuleGroupConfigs])

\* A ManagedRuleGroupProps with no option given (the factory called with {}).
NoProps ==
  [name |-> None, visibilityConfig |-> None, overrideToCount |-> None,
   excludedRules |-> None, scopeDownStatement |-> None, version |-> None,
   managedRuleGroupConfigs |-> None]


(***************************************************************************)
(* The program's state: the construct tree of one stack and the resources  *)
(* the constructs have emitted into its template.                          *)
(***************************************************************************)
VARIABLES
  tree,            \* the paths of the constructs created so far
  lastCall,        \* the operation the host program called last
  thrown,          \* the outcome of that call: "none" or the error thrown
  webAcls,         \* WebACL id -> the WebACL and the CfnWebACL it emitted
  associations,    \* the CfnWebACLAssociation resources emitted
  distributionWebACLId, \* distribution -> DistributionConfig.WebACLId override
  loggingConfigurations, \* the CfnLoggingConfiguration resources emitted
  logDestinations, \* the log groups, buckets and streams created
  mrgProps,        \* the ManagedRuleGroupProps object the host program holds
  mrgCall,         \* the managed rule group factory called last, if any
  mrgRule,         \* the rule record that call returned
  ruleGroups,      \* RuleGroup id -> the CfnRuleGroup it emitted
  actionInput,     \* the request handling and response the host program holds
  actionValue,     \* the action the action factory called last returned
  callProps,       \* the props the host program holds for a Rule or Statement
  callReturned,    \* what the Rule or Statement factory called last returned
  ruleObjects      \* the rule objects the host program holds, as they are now

vars == <<tree, lastCall, thrown, webAcls, associations, distributionWebACLId,
          loggingConfigurations, logDestinations, mrgProps, mrgCall, mrgRule,
          ruleGroups, actionInput, actionValue, callProps, callReturned,
          ruleObjects>>

\* Node.addChild of the constructs library, reached through super(scope, id):
\* a scope holds at most one child of a given id.
CanAddChild(path) == path \notin tree

(***************************************************************************)
(* web-acl.ts: Scope, DefaultAction, WebACL                                *)
(***************************************************************************)
Scope == {"REGIONAL", "CLOUDFRONT"}

\* A plausible slip: allow() written as a copy of block().
DefaultActionAllowAsBlock(customRequestHandling) ==
  [allow |-> None,
   block |-> Some([customResponse |-> customRequestHandling])]

\* DefaultAction.allow(customRequestHandling?)
DefaultActionAllow(customRequestHandling) ==
  [allow |-> Some([customRequestHandling |-> customRequestHandling]),
   block |-> None]

\* DefaultAction.block(customResponse?)
DefaultActionBlock(customResponse) ==
  [allow |-> None,
   block |-> Some([customResponse |-> customResponse])]

\* The rule objects the host program has built; a rules sequence holds
\* references (indices) into this pool, and the same object may be referenced
\* more than once.  Objects 1 and 2 are two calls of the same factory: equal
\* values, distinct objects.  Object 4 is a record that carries a priority of
\* its own.
CarriedPriority == 7
WithoutPriority(rule) ==
  [name |-> rule.name, statement |-> rule.statement,
   visibilityConfig |-> rule.visibilityConfig,
   overrideAction |-> rule.overrideAction, priority |-> None]
WithPriority(rule, p) ==
  [name |-> rule.name, statement |-> rule.statement,
   visibilityConfig |-> rule.visibilityConfig,
   overrideAction |-> rule.overrideAction, priority |-> Some(p)]
RulePool ==
  << WithoutPriority(awsFactory("coreRuleSet", NoProps)),
     WithoutPriority(awsFactory("coreRuleSet", NoProps)),
     WithoutPriority(awsFactory("sqlInjection", NoProps)),
     WithPriority(awsFactory("linux", NoProps), CarriedPriority) >>
RuleRefs == 1..Len(RulePool)

\* All sequences over S of length at most n.
SeqUpTo(S, n) == UNION {[1..k -> S] : k \in 0..n}

\* A plausible slip: a running index shared by the WebACLs of the stack, which
\* goes on counting where the WebACLs built before stopped.
indexOfRunning(rules, x) ==
  (CHOOSE i \in 1..Len(rules) :
     /\ rules[i] = x
     /\ \A j \in 1..(i - 1) : rules[j] # x) - 1 + Cardinality(DOMAIN webAcls)

\* Array.prototype.indexOf: the zero-based index of the first element
\* strictly equal to x (for objects: the same reference).
indexOf(rules, x) ==
  (CHOOSE i \in 1..Len(rules) :
     /\ rules[i] = x
     /\ \A j \in 1..(i - 1) : rules[j] # x) - 1

\* { priority: rules.indexOf(rule), ...rule }: the keys of rule are written
\* after priority, so a priority key of rule replaces the index.
PrioritizedRule(rules, ref) ==
  LET rule == ruleObjects[ref] IN
  [priority |-> IF IsSome(rule.priority) THEN Get(rule.priority)
                ELSE indexOf(rules, ref),
   name |-> rule.name,
   statement |-> rule.statement,
   visibilityConfig |-> rule.visibilityConfig,
   overrideAction |-> rule.overrideAction]

\* A plausible slip: a WebACL given no rules falls back on a default rule.
prioritizeRulesDefaulting(rules) ==
  IF IsSome(rules)
  THEN [i \in 1..Len(Get(rules)) |-> PrioritizedRule(Get(rules), Get(rules)[i])]
  ELSE << PrioritizedRule(<<1>>, 1) >>

\* WebACL.prioritizeRules(rules)
prioritizeRules(rules) ==
  IF IsSome(rules)
  THEN [i \in 1..Len(Get(rules)) |-> PrioritizedRule(Get(rules), Get(rules)[i])]
  ELSE <<>>

\* A plausible slip: the priority assigned in place, rule.priority = index,
\* which writes into the caller's rule objects.
ObjectsAfterPrioritizeInPlace(rules) ==
  [ref \in DOMAIN ruleObjects |->
     IF IsSome(rules) /\ \E i \in 1..Len(Get(rules)) : Get(rules)[i] = ref
     THEN [ruleObjects[ref] EXCEPT !.priority = Some(indexOf(Get(rules), ref))]
     ELSE ruleObjects[ref]]

\* The caller's rule objects after prioritizeRules(rules): rules.map builds a
\* new array and { priority: ..., ...rule } a new object for each rule, so
\* nothing is written into the objects the caller handed in.
ObjectsAfterPrioritize(rules) == ruleObjects

\* A plausible slip: the ARN formed from a fixed resource name instead of the
\* WebACL's own, so that the WebACLs of a stack share one ARN.
WebAclArnShared(id) ==
  [service |-> "wafv2", resource |-> "webacl", of |-> "WebACL"]

\* The attributes of the emitted resource, as the stack resolves them.
WebAclArn(id) == [service |-> "wafv2", resource |-> "webacl", of |-> id]
WebAclId(id) == "Id-" \o id

\* A plausible slip: the scope written into the resource as a fixed value, as
\* the visibility config is.
CfnWebACLPropsRegional(scope, defaultAction, visibilityConfig, rules) ==
  [scope |-> "REGIONAL",
   defaultAction |-> defaultAction,
   visibilityConfig |-> visibilityConfig,
   rules |-> rules]

\* The properties the constructor hands to new CfnWebACL(this, 'Resource', ...).
CfnWebACLProps(scope, defaultAction, visibilityConfig, rules) ==
  [scope |-> scope,
   defaultAction |-> defaultAction,
   visibilityConfig |-> visibilityConfig,
   rules |-> rules]

\* new WebACL(stack, id, props)
NewWebACL(id, props) ==
  IF ~CanAddChild(<<id>>)
  THEN /\ thrown' = "There is already a Construct with name"
       /\ UNCHANGED <<tree, webAcls, ruleObjects>>
  ELSE LET defaultAction ==
             IF IsSome(props.defaultAction) THEN Get(props.defaultAction)
             ELSE DefaultActionAllow(None)
           prioritizedRules == prioritizeRules(props.rules)
           visibilityConfig == DefaultVisibility("WAF-Default")
           resource == CfnWebACLProps(props.scope, defaultAction,
                                      visibilityConfig, prioritizedRules)
       IN /\ tree' = tree \cup {<<id>>, <<id, "Resource">>}
          /\ ruleObjects' = ObjectsAfterPrioritize(props.rules)
          /\ webAcls' = [x \in DOMAIN webAcls \cup {id} |->
                           IF x = id
                           THEN [props |-> props,
                                 defaultAction |-> defaultAction,
                                 resource |-> resource,
                                 webAclArn |-> WebAclArn(id),
                                 webAclId |-> WebAclId(id)]
                           ELSE webAcls[x]]
          /\ thrown' = "none"

\* The state of a stack into which nothing has been built yet.
EmptyStack ==
  /\ tree = {}
  /\ lastCall = "none"
  /\ thrown = "none"
  /\ webAcls = <<>>
  /\ associations = {}
  /\ distributionWebACLId = <<>>
  /\ loggingConfigurations = {}
  /\ logDestinations = {}
  /\ mrgCall = None
  /\ mrgRule = None
  /\ ruleGroups = <<>>
  /\ actionValue = None
  /\ callReturned = None
  /\ ruleObjects = RulePool

Init ==
  /\ EmptyStack
  /\ mrgProps = NoProps
  /\ actionInput = NoActionInput
  /\ callProps = None

(***************************************************************************)
(* Spec: a host program that builds WebACLs out of rule sequences.         *)
(***************************************************************************)
AclIds == {"WebACL", "WebACL2"}

RulesInputs == Option(SeqUpTo(RuleRefs, MaxRules))

\* Every rules sequence, on WebACLs of one scope and no other option.
AclRulesProps ==
  [scope : {"REGIONAL"}, defaultAction : {None}, visibilityConfig : {None},
   rules : RulesInputs]

CreateWebACL ==
  /\ \E id \in AclIds, props \in AclRulesProps : NewWebACL(id, props)
  /\ lastCall' = "new WebACL"
  /\ UNCHANGED <<associations, distributionWebACLId, loggingConfigurations,
                 logDestinations, mrgProps, mrgCall, mrgRule, ruleGroups,
                 actionInput, actionValue,
                 callProps, callReturned>>

Next == CreateWebACL

Spec == Init /\ [][Next]_vars

(***************************************************************************)
(* Claims about priority assignment, checked under Spec.                   *)
(***************************************************************************)
\* The rules sequence a WebACL was given (empty when none was given).
RulesGiven(id) ==
  IF IsSome(webAcls[id].props.rules) THEN Get(webAcls[id].props.rules) ELSE <<>>
EmittedRules(id) == webAcls[id].resource.rules
CarriesNoPriority(id) ==
  \A i \in 1..Len(RulesGiven(id)) : ~IsSome(RulePool[RulesGiven(id)[i]].priority)
HoldsNoObjectTwice(id) ==
  \A i, j \in 1..Len(RulesGiven(id)) :
    RulesGiven(id)[i] = RulesGiven(id)[j] => i = j

\* C1: for every rule sequence given to a WebACL, whether or not its elements
\* are distinct, the i-th emitted rule has priority i (zero-based) and no two
\* emitted rules share a priority.  Stated for the sequences of records that
\* carry no priority of their own; the same object may occur twice.
C1_PriorityIsIndex ==
  \A id \in DOMAIN webAcls :
    CarriesNoPriority(id) =>
      /\ \A i \in 1..Len(EmittedRules(id)) : EmittedRules(id)[i].priority = i - 1
      /\ \A i, j \in 1..Len(EmittedRules(id)) :
           EmittedRules(id)[i].priority = EmittedRules(id)[j].priority => i = j

\* C2: priorities are never user-supplied: the emitted priority of a record is
\* its position in the rules sequence, also when the record carries a priority
\* field of its own.  Stated for the sequences that hold no object twice.
C2_PriorityNotUserSupplied ==
  \A id \in DOMAIN webAcls :
    HoldsNoObjectTwice(id) =>
      \A i \in 1..Len(EmittedRules(id)) : EmittedRules(id)[i].priority = i - 1

\* C3: two rules of the same name in the rules sequence of one WebACL make
\* its construction fail before the resource is emitted: no emitted WebACL
\* holds two rules of one name.  (The same name in two WebACLs is accepted.)
C3_NoDuplicateNamesEmitted ==
  \A id \in DOMAIN webAcls :
    \A i, j \in 1..Len(EmittedRules(id)) :
      EmittedRules(id)[i].name = EmittedRules(id)[j].name => i = j

\* C29: priority assignment changes nothing but the priority: the emitted
\* rule list has the length and the order of the rules sequence given, every
\* emitted rule has the name, statement, visibilityConfig and overrideAction
\* of the rule given at its position, and the rule objects the caller handed
\* in are as the caller built them.
C29_OnlyPriorityChanges ==
  /\ \A id \in DOMAIN webAcls :
       /\ Len(EmittedRules(id)) = Len(RulesGiven(id))
       /\ \A i \in 1..Len(RulesGiven(id)) :
            /\ EmittedRules(id)[i].name = RulePool[RulesGiven(id)[i]].name
            /\ EmittedRules(id)[i].statement
                 = RulePool[RulesGiven(id)[i]].statement
            /\ EmittedRules(id)[i].visibilityConfig
                 = RulePool[RulesGiven(id)[i]].visibilityConfig
            /\ EmittedRules(id)[i].overrideAction
                 = RulePool[RulesGiven(id)[i]].overrideAction
  /\ ruleObjects = RulePool

\* A WebACL has been built from two different rules, the second of which
\* carries a priority of its own.
C29_Witness ==
  \E id \in DOMAIN webAcls :
    /\ Len(RulesGiven(id)) = 2
    /\ RulesGiven(id) = <<3, 4>>
    /\ EmittedRules(id)[1].name = "AWSManagedRulesSQLiRuleSet"
    /\ EmittedRules(id)[2].name = "AWSManagedRulesLinuxRuleSet"

\* The priorities of the rules a WebACL emitted, in their order.
EmittedPriorities(id) ==
  [i \in 1..Len(EmittedRules(id)) |-> EmittedRules(id)[i].priority]

C14_NoRulesEmitsEmptyList ==
  /\ \A id \in DOMAIN webAcls :
       webAcls[id].props.rules \in {None, Some(<<>>)}
         => /\ EmittedRules(id) = <<>>
            /\ Len(EmittedRules(id)) = 0
  /\ (lastCall = "new WebACL" /\ thrown # "none")
       => /\ thrown = "There is already a Construct with name"
          /\ DOMAIN webAcls # {}

\* One WebACL was built with no rules property and one with an empty sequence.
C14_Witness ==
  /\ thrown = "none"
  /\ \E a, b \in DOMAIN webAcls :
       /\ ~IsSome(webAcls[a].props.rules)
       /\ IsSome(webAcls[b].props.rules)
       /\ Get(webAcls[b].props.rules) = <<>>
       /\ EmittedRules(a) = <<>>
       /\ EmittedRules(b) = <<>>

(***************************************************************************)
(* SpecWebACL: a host program that builds WebACLs of either scope, with and *)
(* without a default action of its own.                                    *)
(***************************************************************************)
\* The default actions the host program builds with the DefaultAction
\* factories, and the case of giving none.
DefaultActionInputs ==
  { None,
    Some(DefaultActionAllow(None)),
    Some(DefaultActionAllow(Some([insertHeaders |-> <<"x-allowed">>]))),
    Some(DefaultActionBlock(None)),
    Some(DefaultActionBlock(Some([responseCode |-> 403]))) }

\* A visibility config of the caller's, with the request sampling off.
CustomVisibility ==
  [cloudWatchMetricsEnabled |-> TRUE,
   metricName |-> "MyWebACL",
   sampledRequestsEnabled |-> FALSE]

AclConfiguredProps ==
  [scope : Scope, defaultAction : DefaultActionInputs,
   visibilityConfig : {None, Some(CustomVisibility)},
   rules : {None, Some(<<3>>)}]

CreateConfiguredWebACL ==
  /\ \E id \in AclIds, props \in AclConfiguredProps : NewWebACL(id, props)
  /\ lastCall' = "new WebACL"
  /\ UNCHANGED <<associations, distributionWebACLId, loggingConfigurations,
                 logDestinations, mrgProps, mrgCall, mrgRule, ruleGroups,
                 actionInput, actionValue,
                 callProps, callReturned>>

NextWebACL == CreateConfiguredWebACL

SpecWebACL == Init /\ [][NextWebACL]_vars

\* C15: a WebACL built without a defaultAction has the default action Allow
\* with no custom request handling; a WebACL built with a defaultAction has
\* exactly that one; the defaultAction attribute of the WebACL and the
\* DefaultAction of the emitted resource are the same value.
C15_DefaultActionDefaultsToAllow ==
  \A id \in DOMAIN webAcls :
    /\ ~IsSome(webAcls[id].props.defaultAction) =>
         webAcls[id].defaultAction =
           [allow |-> <<[customRequestHandling |-> <<>>]>>, block |-> <<>>]
    /\ IsSome(webAcls[id].props.defaultAction) =>
         webAcls[id].defaultAction = webAcls[id].props.defaultAction[1]
    /\ webAcls[id].resource.defaultAction = webAcls[id].defaultAction

\* One WebACL was built without a default action and one with a block action.
C15_Witness ==
  \E a, b \in DOMAIN webAcls :
    /\ ~IsSome(webAcls[a].props.defaultAction)
    /\ IsSome(webAcls[b].props.defaultAction)
    /\ IsSome(webAcls[b].resource.defaultAction.block)

\* C16: the scope given to a WebACL, REGIONAL or CLOUDFRONT, is the Scope of
\* the emitted resource, unchanged.
C16_ScopeEmittedUnchanged ==
  \A id \in DOMAIN webAcls :
    /\ webAcls[id].resource.scope = webAcls[id].props.scope
    /\ webAcls[id].resource.scope \in {"REGIONAL", "CLOUDFRONT"}

\* A WebACL of each scope has been built.
C16_Witness ==
  \E a, b \in DOMAIN webAcls :
    /\ webAcls[a].props.scope = "REGIONAL"
    /\ webAcls[a].resource.scope = "REGIONAL"
    /\ webAcls[b].props.scope = "CLOUDFRONT"
    /\ webAcls[b].resource.scope = "CLOUDFRONT"

\* C28: the visibility config emitted for a WebACL is the one the caller gave
\* in props.visibilityConfig when one is given, and the default (CloudWatch
\* metrics on, request sampling on, metric name WAF-Default) only when none
\* is given.
C28_VisibilityConfigFromProps ==
  \A id \in DOMAIN webAcls :
    /\ IsSome(webAcls[id].props.visibilityConfig) =>
         webAcls[id].resource.visibilityConfig
           = webAcls[id].props.visibilityConfig[1]
    /\ ~IsSome(webAcls[id].props.visibilityConfig) =>
         webAcls[id].resource.visibilityConfig =
           [cloudWatchMetricsEnabled |-> TRUE,
            metricName |-> "WAF-Default",
            sampledRequestsEnabled |-> TRUE]

(***************************************************************************)
(* web-acl.ts: WebACL.attachTo                                             *)
(***************************************************************************)
\* The resources of the stack a WebACL can be attached to, one of each kind
\* attachTo dispatches on.
ProtectedResources ==
  { [kind |-> "Distribution", id |-> "Dist"],
    [kind |-> "Stage", id |-> "Stage"],
    [kind |-> "ApplicationLoadBalancer", id |-> "Alb"],
    [kind |-> "UserPool", id |-> "UserPool"] }

\* A plausible slip: every branch copied from the first one, reading stageArn.
ResourceArnOfStage(r) == [service |-> "Stage", resource |-> r.id]

\* stageArn, loadBalancerArn, userPoolArn of a protected resource.
ResourceArn(r) == [service |-> r.kind, resource |-> r.id]

\* The scope a kind of resource belongs to: a CloudFront distribution takes a
\* CLOUDFRONT web ACL, every other kind a REGIONAL one.
ScopeClass(kind) == IF kind = "Distribution" THEN "CLOUDFRONT" ELSE "REGIONAL"

\* webAcl.attachTo(protectedResource), on the WebACL of id `id`.
attachTo(id, r) ==
  IF r.kind = "Distribution"
  THEN /\ distributionWebACLId' =
            [x \in DOMAIN distributionWebACLId \cup {r.id} |->
               IF x = r.id THEN webAcls[id].webAclArn
               ELSE distributionWebACLId[x]]
       /\ thrown' = "none"
       /\ UNCHANGED <<tree, associations>>
  ELSE LET path == <<id, "WeblAclAssociation-" \o r.id>> IN
       IF ~CanAddChild(path)
       THEN /\ thrown' = "There is already a Construct with name"
            /\ UNCHANGED <<tree, associations, distributionWebACLId>>
       ELSE /\ tree' = tree \cup {path}
            /\ associations' = associations \cup
                 {[path |-> path,
                   resourceArn |-> ResourceArn(r),
                   webAclArn |-> webAcls[id].webAclArn]}
            /\ thrown' = "none"
            /\ UNCHANGED distributionWebACLId

(***************************************************************************)
(* SpecAttach: a host program that builds WebACLs and attaches them.       *)
(***************************************************************************)
AclPlainProps ==
  [scope : Scope, defaultAction : {None}, visibilityConfig : {None},
   rules : {None}]

CreatePlainWebACL ==
  /\ \E id \in AclIds, props \in AclPlainProps : NewWebACL(id, props)
  /\ lastCall' = "new WebACL"
  /\ UNCHANGED <<associations, distributionWebACLId, loggingConfigurations,
                 logDestinations, mrgProps, mrgCall, mrgRule, ruleGroups,
                 actionInput, actionValue,
                 callProps, callReturned>>

AttachTo ==
  /\ \E id \in DOMAIN webAcls, r \in ProtectedResources : attachTo(id, r)
  /\ lastCall' = "attachTo"
  /\ UNCHANGED <<webAcls, loggingConfigurations, logDestinations, mrgProps,
                 mrgCall, mrgRule, ruleGroups,
                 actionInput, actionValue,
                 callProps, callReturned, ruleObjects>>

NextAttach == CreatePlainWebACL \/ AttachTo

SpecAttach == Init /\ [][NextAttach]_vars

\* The WebACL that has the given ARN.
AclOfArn(arn) == CHOOSE id \in DOMAIN webAcls : webAcls[id].webAclArn = arn

\* C4: attachTo never registers an association between a WebACL and a
\* resource of the other scope class: every association record pairs a
\* REGIONAL WebACL with a regional resource, and every WebACLId override of a
\* distribution names a CLOUDFRONT WebACL.
C4_NoCrossScopeAssociation ==
  /\ \A a \in associations :
       webAcls[AclOfArn(a.webAclArn)].resource.scope
         = ScopeClass(a.resourceArn.service)
  /\ \A d \in DOMAIN distributionWebACLId :
       webAcls[AclOfArn(distributionWebACLId[d])].resource.scope
         = ScopeClass("Distribution")

\* C17: attachTo on a CloudFront distribution sets the distribution's
\* DistributionConfig.WebACLId to the WebACL's ARN and creates no association
\* record; attachTo on a stage, a load balancer or a user pool creates exactly
\* one association record, whose WebACLArn is the ARN of the WebACL it was
\* called on and whose ResourceArn is the ARN of the protected resource.
C17_AttachToRegisters ==
  /\ [](\A a \in associations :
          /\ a.webAclArn =
               [service |-> "wafv2", resource |-> "webacl", of |-> a.path[1]]
          /\ \E r \in ProtectedResources :
               /\ r.kind \in {"Stage", "ApplicationLoadBalancer", "UserPool"}
               /\ a.path[2] = "WeblAclAssociation-" \o r.id
               /\ a.resourceArn = [service |-> r.kind, resource |-> r.id])
  /\ [][(lastCall' = "attachTo" /\ thrown' = "none") =>
          \/ /\ associations' = associations
             /\ \E id \in DOMAIN webAcls :
                  /\ DOMAIN distributionWebACLId' =
                       DOMAIN distributionWebACLId \cup {"Dist"}
                  /\ distributionWebACLId'["Dist"] =
                       [service |-> "wafv2", resource |-> "webacl", of |-> id]
          \/ /\ distributionWebACLId' = distributionWebACLId
             /\ associations \subseteq associations'
             /\ Cardinality(associations') = Cardinality(associations) + 1]_vars

\* A WebACL has been attached to a distribution after one was attached to a
\* regional resource.
C17_Witness ==
  /\ lastCall = "attachTo"
  /\ thrown = "none"
  /\ "Dist" \in DOMAIN distributionWebACLId
  /\ \E a \in associations : a.resourceArn.service = "UserPool"
  /\ \E a \in associations : a.resourceArn.service = "ApplicationLoadBalancer"

(***************************************************************************)
(* logging-configuration.ts: the logging filter builders                   *)
(***************************************************************************)
LogDestinationService == {"CLOUDWATCH", "S3", "KINESIS"}

\* LoggingFilterCondition.action(action)
ActionCondition(action) ==
  [ActionCondition |-> Some([Action |-> action]), LabelNameCondition |-> None]

\* LoggingFilterCondition.labelName(labelName)
LabelNameCondition(labelName) ==
  [ActionCondition |-> None,
   LabelNameCondition |-> Some([LabelName |-> labelName])]

\* LoggingFilter.keepIfMeetsAny(conditions)
keepIfMeetsAny(conditions) ==
  [Requirement |-> "MEETS_ANY", Conditions |-> conditions, Behavior |-> "KEEP"]

\* LoggingFilter.dropIfMeetsAll(conditions)
dropIfMeetsAll(conditions) ==
  [Requirement |-> "MEETS_ALL", Conditions |-> conditions, Behavior |-> "DROP"]

\* LoggingFilterConfiguration.defaultKeep(filters)
defaultKeep(filters) == [DefaultBehavior |-> "KEEP", Filters |-> filters]

\* LoggingFilterConfiguration.defaultDrop(filters)
defaultDrop(filters) == [DefaultBehavior |-> "DROP", Filters |-> filters]

\* The default of the file's earlier LoggingConfiguration: blocked requests only.
DefaultLoggingFilterBlockOnly ==
  defaultDrop(<< keepIfMeetsAny(<< ActionCondition("BLOCK") >>) >>)

\* The filter a LoggingConfiguration uses when props.loggingFilter is absent.
DefaultLoggingFilter ==
  defaultDrop(<< keepIfMeetsAny(<< ActionCondition("BLOCK"),
                                   ActionCondition("COUNT") >>) >>)

(***************************************************************************)
(* logging-configuration.ts: LoggingConfiguration                          *)
(***************************************************************************)
\* logs.RetentionDays.ONE_MONTH, and the 30 of Duration.days(... || 30).
ONE_MONTH == 30
\* logs.RetentionDays.ONE_YEAR, the retention the README overrides with.
ONE_YEAR == 365

\* A CloudWatch log group's logGroupArn ends in ':*'.
LogGroupArn(name) == <<"arn:aws:logs:log-group:", name, ":*">>
BucketArn(name) == <<"arn:aws:s3:::", name>>
\* A stream is given no name; the stack generates one from its path.
StreamArn(path) == <<"arn:aws:kinesis:stream/", path>>

\* Fn.select(0, Fn.split(sep, s)): the part of s before the first sep.
SelectFirstSplit(sep, s) ==
  IF \E i \in 1..Len(s) : s[i] = sep
  THEN SubSeq(s, 1, (CHOOSE i \in 1..Len(s) :
                       s[i] = sep /\ \A j \in 1..(i - 1) : s[j] # sep) - 1)
  ELSE s

\* The earlier LoggingConfiguration of the file knows CloudWatch only: any
\* other service creates nothing.
LogDestinationCloudWatchOnly(path, config, logSuffix) ==
  IF config.logDestinationService = "CLOUDWATCH"
  THEN Some([path |-> path \o <<"LogGroup">>,
             kind |-> "LogGroup",
             name |-> Some("aws-waf-logs-" \o logSuffix),
             removalPolicy |-> IF IsSome(config.removalPolicy)
                               THEN config.removalPolicy ELSE Some("RETAIN"),
             retention |-> IF IsSome(config.retentionPeriod)
                           THEN Get(config.retentionPeriod) ELSE ONE_MONTH,
             arn |-> LogGroupArn("aws-waf-logs-" \o logSuffix)])
  ELSE None

\* switch (props.logDestinationConfig.logDestinationService): the destination
\* the LoggingConfiguration at `path` creates, if any.
LogDestination(path, config, logSuffix) ==
  CASE config.logDestinationService = "S3" ->
         Some([path |-> path \o <<"LogBucket">>,
               kind |-> "Bucket",
               name |-> Some("aws-waf-logs-" \o logSuffix),
               removalPolicy |-> Some("RETAIN"),
               retention |-> IF IsSome(config.retentionPeriod)
                             THEN Get(config.retentionPeriod) ELSE ONE_MONTH,
               arn |-> BucketArn("aws-waf-logs-" \o logSuffix)])
    [] config.logDestinationService = "CLOUDWATCH" ->
         Some([path |-> path \o <<"LogGroup">>,
               kind |-> "LogGroup",
               name |-> Some("aws-waf-logs-" \o logSuffix),
               removalPolicy |-> IF IsSome(config.removalPolicy)
                                 THEN config.removalPolicy ELSE Some("RETAIN"),
               retention |-> IF IsSome(config.retentionPeriod)
                             THEN Get(config.retentionPeriod) ELSE ONE_MONTH,
               arn |-> LogGroupArn("aws-waf-logs-" \o logSuffix)])
    [] config.logDestinationService = "KINESIS" ->
         Some([path |-> path \o <<"Stream">>,
               kind |-> "Stream",
               name |-> None,
               removalPolicy |-> None,
               retention |-> IF IsSome(config.retentionPeriod)
                             THEN Get(config.retentionPeriod) ELSE ONE_MONTH,
               arn |-> StreamArn(path \o <<"Stream">>)])
    [] OTHER -> None

\* this.logDestinationArn, from the destination created (undefined if none).
LogDestinationArn(destination) ==
  IF ~IsSome(destination) THEN None
  ELSE IF Get(destination).kind = "LogGroup"
       THEN Some(SelectFirstSplit(":*", Get(destination).arn))
       ELSE Some(Get(destination).arn)

\* A plausible slip: the suffix read with no default, so that a suffix left
\* out is written into the name as the text 'undefined'.
LogSuffixNoDefault(config, webAclId) ==
  IF IsSome(config.logSuffix) THEN Get(config.logSuffix) ELSE "undefined"

\* props.logDestinationConfig.logSuffix || props.webAcl.webAclId: a suffix
\* that is left out or is the empty string gives way to the WebACL's id.
LogSuffix(config, webAclId) ==
  IF TruthyStr(config.logSuffix) THEN Get(config.logSuffix) ELSE webAclId

\* A plausible slip: the redacted fields handed on as they came, undefined
\* when the caller gave none.
RedactedFieldsPassThrough(given) == given

\* props.redactedFields || []: the RedactedFields property of the resource,
\* which a CfnLoggingConfiguration may also leave undefined.
RedactedFields(given) == IF IsSome(given) THEN given ELSE Some(<<>>)

\* new LoggingConfiguration(scope, id, props), at path = scope's path, id.
NewLoggingConfiguration(path, props) ==
  IF ~CanAddChild(path)
  THEN /\ thrown' = "There is already a Construct with name"
       /\ UNCHANGED <<tree, loggingConfigurations, logDestinations>>
  ELSE LET loggingFilter ==
             IF IsSome(props.loggingFilter) THEN Get(props.loggingFilter)
             ELSE DefaultLoggingFilter
           redactedFields == RedactedFields(props.redactedFields)
           logSuffix == LogSuffix(props.logDestinationConfig,
                                  webAcls[props.webAcl].webAclId)
           destination ==
             LogDestination(path, props.logDestinationConfig, logSuffix)
           logDestinationArn == LogDestinationArn(destination)
       IN /\ tree' = tree \cup {path, path \o <<"Resource">>}
                          \cup {Get(destination).path : x \in
                                  IF IsSome(destination) THEN {1} ELSE {}}
          /\ logDestinations' = logDestinations \cup
               {Get(destination) : x \in IF IsSome(destination) THEN {1} ELSE {}}
          /\ loggingConfigurations' = loggingConfigurations \cup
               {[path |-> path,
                 props |-> props,
                 logDestinationArn |-> logDestinationArn,
                 resource |->
                   [resourceArn |-> webAcls[props.webAcl].webAclArn,
                    logDestinationConfigs |-> <<logDestinationArn>>,
                    loggingFilter |-> loggingFilter,
                    redactedFields |-> redactedFields]]}
          /\ thrown' = "none"

(***************************************************************************)
(* web-acl.ts: WebACL.setLoggingConfiguration                              *)
(***************************************************************************)
\* A plausible slip: an id derived from the destination, as attachTo derives
\* the id of an association from the resource.
LoggingConfigurationPathPerService(id, logDestinationConfig) ==
  <<id, "LoggingConfiguration-" \o logDestinationConfig.logDestinationService>>

\* new LoggingConfiguration(this, 'LoggingConfiguration', ...): the path of
\* the construct a call creates.
LoggingConfigurationPath(id, logDestinationConfig) ==
  <<id, "LoggingConfiguration">>

\* webAcl.setLoggingConfiguration(logDestinationConfig, filter?, redacted?)
setLoggingConfiguration(id, logDestinationConfig, loggingFilter, redactedFields) ==
  NewLoggingConfiguration(
    LoggingConfigurationPath(id, logDestinationConfig),
    [logDestinationConfig |-> logDestinationConfig,
     loggingFilter |-> loggingFilter,
     redactedFields |-> redactedFields,
     webAcl |-> id])

(***************************************************************************)
(* SpecLogging: a host program that builds WebACLs and sets their logging. *)
(***************************************************************************)
\* The destination configs tried: every service, with no suffix, with an
\* empty one and with a suffix,
\* with the removal policy and the retention both given or both left out.
LogDestinationConfigs ==
  { c \in [logDestinationService : LogDestinationService,
           logSuffix : {None, Some(""), Some("suffix")},
           removalPolicy : {None, Some("DESTROY")},
           retentionPeriod : {None, Some(ONE_YEAR)}] :
      IsSome(c.removalPolicy) = IsSome(c.retentionPeriod) }

\* A filter of the caller's own.
CustomLoggingFilter ==
  defaultKeep(<< dropIfMeetsAll(<< LabelNameCondition("awswaf:label") >>) >>)

LoggingFilterInputs == {None, Some(CustomLoggingFilter)}

RedactedFieldsInputs == {None, Some(<< [singleHeader |-> "haystack"] >>)}

SetLoggingConfiguration ==
  /\ \E id \in DOMAIN webAcls, config \in LogDestinationConfigs,
        filter \in LoggingFilterInputs, redacted \in RedactedFieldsInputs :
       /\ IsSome(filter) = IsSome(redacted)
       /\ setLoggingConfiguration(id, config, filter, redacted)
  /\ lastCall' = "setLoggingConfiguration"
  /\ UNCHANGED <<webAcls, associations, distributionWebACLId, mrgProps,
                 mrgCall, mrgRule, ruleGroups,
                 actionInput, actionValue,
                 callProps, callReturned, ruleObjects>>

NextLogging == CreatePlainWebACL \/ SetLoggingConfiguration

SpecLogging == Init /\ [][NextLogging]_vars

\* The logging configurations and the log destinations under a WebACL.
LoggingOf(id) == {lc \in loggingConfigurations : lc.path[1] = id}
DestinationsOf(id) == {d \in logDestinations : d.path[1] = id}
\* The destinations a logging configuration created: its children.
DestinationsUnder(lc) ==
  {d \in logDestinations : SubSeq(d.path, 1, Len(lc.path)) = lc.path}

C6_AtMostOneLoggingConfiguration ==
  /\ [](\A id \in DOMAIN webAcls :
          /\ Cardinality(LoggingOf(id)) <= 1
          /\ Cardinality(DestinationsOf(id)) <= 1)
  /\ [][(lastCall' = "setLoggingConfiguration" /\ thrown' # "none")
          => UNCHANGED <<loggingConfigurations, logDestinations, tree>>]_vars

\* A second setLoggingConfiguration call on a WebACL has been rejected.
C6_Witness ==
  /\ lastCall = "setLoggingConfiguration"
  /\ thrown # "none"
  /\ \E id \in DOMAIN webAcls : Cardinality(LoggingOf(id)) = 1

\* C7: every LoggingConfiguration creates exactly one destination, of the
\* kind its logDestinationService asks for; logDestinationArn is that
\* destination's address, and logDestinationConfigs holds exactly that one,
\* defined, element.
C7_ExactlyOneDestination ==
  \A lc \in loggingConfigurations :
    /\ Cardinality(DestinationsUnder(lc)) = 1
    /\ \A d \in DestinationsUnder(lc) :
         /\ d.kind =
              (CASE lc.props.logDestinationConfig.logDestinationService
                      = "CLOUDWATCH" -> "LogGroup"
                 [] lc.props.logDestinationConfig.logDestinationService
                      = "S3" -> "Bucket"
                 [] lc.props.logDestinationConfig.logDestinationService
                      = "KINESIS" -> "Stream")
         /\ lc.logDestinationArn =
              (CASE d.kind = "LogGroup" ->
                      <<<<"arn:aws:logs:log-group:", d.name[1]>>>>
                 [] d.kind = "Bucket" -> <<<<"arn:aws:s3:::", d.name[1]>>>>
                 [] d.kind = "Stream" -> <<d.arn>>)
    /\ Len(lc.resource.logDestinationConfigs) = 1
    /\ IsSome(lc.resource.logDestinationConfigs[1])
    /\ lc.resource.logDestinationConfigs[1] = lc.logDestinationArn

\* Two WebACLs log, one to a bucket and one to a stream.
C7_Witness ==
  /\ \E lc \in loggingConfigurations :
       lc.props.logDestinationConfig.logDestinationService = "S3"
  /\ \E lc \in loggingConfigurations :
       lc.props.logDestinationConfig.logDestinationService = "KINESIS"

\* C24 as stated: when logDestinationConfig.logSuffix is not given the name
\* suffix of the created log group or bucket is the owning WebACL's id, and
\* when it is given the suffix is the given value, whatever it is; the name is
\* aws-waf-logs- followed by that suffix.
C24_SuffixIsGivenOrId ==
  \A lc \in loggingConfigurations :
    \A d \in DestinationsUnder(lc) :
      d.kind \in {"LogGroup", "Bucket"} =>
        d.name = << "aws-waf-logs-" \o
                    (IF lc.props.logDestinationConfig.logSuffix = <<>>
                     THEN "Id-" \o lc.path[1]
                     ELSE lc.props.logDestinationConfig.logSuffix[1]) >>

\* C24 as amended: when logSuffix is not given or is the empty string the
\* name suffix of the created log group or bucket is the owning WebACL's id,
\* and when a suffix that is not empty is given the suffix is that value; the
\* name is aws-waf-logs- followed by that suffix.
C24_SuffixIsNonEmptyGivenOrId ==
  \A lc \in loggingConfigurations :
    \A d \in DestinationsUnder(lc) :
      d.kind \in {"LogGroup", "Bucket"} =>
        d.name = << "aws-waf-logs-" \o
                    (IF lc.props.logDestinationConfig.logSuffix \in {<<>>, <<"">>}
                     THEN "Id-" \o lc.path[1]
                     ELSE lc.props.logDestinationConfig.logSuffix[1]) >>

\* A log group was created with no suffix given and a bucket with a suffix
\* of the caller's.
C24_Witness ==
  /\ \E d \in logDestinations :
       d.kind = "LogGroup" /\ d.name = <<"aws-waf-logs-Id-WebACL">>
  /\ \E d \in logDestinations :
       d.kind = "Bucket" /\ d.name = <<"aws-waf-logs-suffix">>

\* C25: a LoggingConfiguration created without redactedFields emits an empty
\* redacted-field list; one created with redactedFields emits them unchanged.
C25_RedactedFieldsDefaultEmpty ==
  \A lc \in loggingConfigurations :
    /\ IsSome(lc.resource.redactedFields)
    /\ ~IsSome(lc.props.redactedFields) =>
         Len(lc.resource.redactedFields[1]) = 0
    /\ IsSome(lc.props.redactedFields) =>
         lc.resource.redactedFields[1] = lc.props.redactedFields[1]

\* One logging configuration was created without redacted fields and one
\* with.
C25_Witness ==
  /\ \E lc \in loggingConfigurations : ~IsSome(lc.props.redactedFields)
  /\ \E lc \in loggingConfigurations :
       /\ IsSome(lc.props.redactedFields)
       /\ Len(lc.resource.redactedFields[1]) = 1

\* C27: for every destination service the created log destination has the
\* removal policy and the retention given in logDestinationConfig, and with
\* none given it has the removal policy RETAIN and a retention of 30 days.
\* (For a stream with no removal policy given, the policy is the kinesis
\* library's own default and is left out of the statement.)
C27_DestinationUsesPolicyAndRetention ==
  \A lc \in loggingConfigurations :
    \A d \in DestinationsUnder(lc) :
      LET config == lc.props.logDestinationConfig IN
      /\ IsSome(config.removalPolicy) => d.removalPolicy = config.removalPolicy
      /\ (~IsSome(config.removalPolicy) /\ d.kind \in {"LogGroup", "Bucket"})
           => d.removalPolicy = <<"RETAIN">>
      /\ IsSome(config.retentionPeriod)
           => d.retention = config.retentionPeriod[1]
      /\ ~IsSome(config.retentionPeriod) => d.retention = 30

\* C30: a logging configuration always references a fully assembled WebACL:
\* the WebACL and its resource, prioritized rules included, are emitted
\* before any logging configuration that names it, and the resourceArn of the
\* emitted logging record is the ARN of the WebACL it was attached to and of
\* no other WebACL.
C30_LoggingReferencesAssembledWebACL ==
  /\ [](\A lc \in loggingConfigurations :
          /\ lc.path[1] \in DOMAIN webAcls
          /\ <<lc.path[1], "Resource">> \in tree
          /\ lc.resource.resourceArn =
               [service |-> "wafv2", resource |-> "webacl", of |-> lc.path[1]]
          /\ \A id \in DOMAIN webAcls :
               webAcls[id].webAclArn = lc.resource.resourceArn
                 => id = lc.path[1])
  /\ [][\A lc \in loggingConfigurations' \ loggingConfigurations :
          /\ lc.path[1] \in DOMAIN webAcls
          /\ <<lc.path[1], "Resource">> \in tree
          /\ webAcls'[lc.path[1]] = webAcls[lc.path[1]]]_vars

\* Two WebACLs exist and the one built second has a logging configuration.
C30_Witness ==
  /\ Cardinality(DOMAIN webAcls) = 2
  /\ \E lc \in loggingConfigurations : lc.path[1] = "WebACL2"
  /\ lastCall = "setLoggingConfiguration"
  /\ thrown = "none"

(***************************************************************************)
(* SpecManagedRuleGroup: a host program that holds one props object and    *)
(* hands it to the managed rule group factories.                           *)
(***************************************************************************)
ManagedRuleGroupPropsInputs ==
  [name : {None, Some("MyRuleGroup")},
   visibilityConfig :
     {None, Some([cloudWatchMetricsEnabled |-> FALSE,
                  metricName |-> "SharedMetric",
                  sampledRequestsEnabled |-> FALSE])},
   overrideToCount : Option(BOOLEAN),
   excludedRules : {None, Some(<< [name |-> "SizeRestrictions_BODY"] >>)},
   scopeDownStatement :
     {None, Some([geoMatchStatement |-> [countryCodes |-> <<"US">>]])},
   version : {None, Some("Version_1.1")},
   managedRuleGroupConfigs : {None, Some(<< [loginPath |-> "/login"] >>)}]

Vendors == {"MarketplaceSeller"}
ThirdPartyRuleNames == {"ThirdPartyRules"}

InitManagedRuleGroup ==
  /\ EmptyStack
  /\ mrgProps \in ManagedRuleGroupPropsInputs
  /\ actionInput = NoActionInput
  /\ callProps = None

\* ManagedRuleGroup.<f>(mrgProps), for an AWS-curated factory f.
CallAwsFactory(f) ==
  /\ mrgCall' = Some([factory |-> f, vendor |-> "AWS", ruleName |-> AwsRuleOf[f]])
  /\ mrgRule' = Some(awsFactory(f, mrgProps))
  /\ lastCall' = "ManagedRuleGroup." \o f
  /\ thrown' = "none"
  /\ UNCHANGED <<tree, webAcls, associations, distributionWebACLId,
                 loggingConfigurations, logDestinations, mrgProps, ruleGroups,
                 actionInput, actionValue,
                 callProps, callReturned, ruleObjects>>

ipReputation == CallAwsFactory("ipReputation")
adminProtection == CallAwsFactory("adminProtection")
knownBadInputs == CallAwsFactory("knownBadInputs")
coreRuleSet == CallAwsFactory("coreRuleSet")
sqlInjection == CallAwsFactory("sqlInjection")
linux == CallAwsFactory("linux")
posix == CallAwsFactory("posix")
windows == CallAwsFactory("windows")
wordpress == CallAwsFactory("wordpress")
php == CallAwsFactory("php")
anonymousIp == CallAwsFactory("anonymousIp")
botControl == CallAwsFactory("botControl")
accountTakeover == CallAwsFactory("accountTakeover")

\* ManagedRuleGroup.thirdParty({ vendor, ruleName, ...mrgProps })
CallThirdParty ==
  /\ \E vendor \in Vendors, ruleName \in ThirdPartyRuleNames :
       /\ mrgCall' = Some([factory |-> "thirdParty", vendor |-> vendor,
                           ruleName |-> ruleName])
       /\ mrgRule' = Some(thirdParty(
            [vendor |-> vendor,
             ruleName |-> ruleName,
             name |-> mrgProps.name,
             visibilityConfig |-> mrgProps.visibilityConfig,
             overrideToCount |-> mrgProps.overrideToCount,
             excludedRules |-> mrgProps.excludedRules,
             scopeDownStatement |-> mrgProps.scopeDownStatement,
             version |-> mrgProps.version,
             managedRuleGroupConfigs |-> mrgProps.managedRuleGroupConfigs]))
  /\ lastCall' = "ManagedRuleGroup.thirdParty"
  /\ thrown' = "none"
  /\ UNCHANGED <<tree, webAcls, associations, distributionWebACLId,
                 loggingConfigurations, logDestinations, mrgProps, ruleGroups,
                 actionInput, actionValue,
                 callProps, callReturned, ruleObjects>>

NextManagedRuleGroup ==
  \/ ipReputation
  \/ adminProtection
  \/ knownBadInputs
  \/ coreRuleSet
  \/ sqlInjection
  \/ linux
  \/ posix
  \/ windows
  \/ wordpress
  \/ php
  \/ anonymousIp
  \/ botControl
  \/ accountTakeover
  \/ CallThirdParty

SpecManagedRuleGroup == InitManagedRuleGroup /\ [][NextManagedRuleGroup]_vars

\* C8: every managed rule group factory maps overrideToCount = true to the
\* overrideAction Count and an absent or false overrideToCount to None; the
\* overrideAction is never undefined and has exactly one of the two keys.
C8_OverrideActionCountOrNone ==
  IsSome(mrgRule) =>
    LET overrideAction == Get(mrgRule).overrideAction IN
    /\ IsSome(overrideAction)
    /\ Get(overrideAction) \in {{"count"}, {"none"}}
    /\ (mrgProps.overrideToCount = <<TRUE>>) => Get(overrideAction) = {"count"}
    /\ (mrgProps.overrideToCount \in {<<>>, <<FALSE>>})
         => Get(overrideAction) = {"none"}

\* thirdParty and an AWS-curated factory have each been called with
\* overrideToCount = true.
C8_Witness ==
  /\ IsSome(mrgCall)
  /\ mrgProps.overrideToCount = <<TRUE>>

\* C9: the rule record thirdParty returns carries vendorName = vendor and
\* name = ruleName, and every supplied option among version, excludedRules,
\* scopeDownStatement and managedRuleGroupConfigs, unchanged.
C9_ThirdPartyPassesOptions ==
  (IsSome(mrgCall) /\ Get(mrgCall).factory = "thirdParty") =>
    LET st == Get(mrgRule).statement.managedRuleGroupStatement IN
    /\ st.vendorName = Get(mrgCall).vendor
    /\ st.name = Get(mrgCall).ruleName
    /\ st.version = mrgProps.version
    /\ st.excludedRules = mrgProps.excludedRules
    /\ st.scopeDownStatement = mrgProps.scopeDownStatement
    /\ st.managedRuleGroupConfigs = mrgProps.managedRuleGroupConfigs

\* C18: for every managed rule group factory, with no visibilityConfig given
\* the rule's visibility config has the CloudWatch metrics and the request
\* sampling on and the metric name WAF-<rule>, or WAF-<vendor>-<ruleName> for
\* thirdParty, whatever the other options are; a visibilityConfig that is
\* given is the rule's visibility config, unchanged.
C18_VisibilityDefaultsFromRule ==
  IsSome(mrgRule) =>
    /\ ~IsSome(mrgProps.visibilityConfig) =>
         Get(mrgRule).visibilityConfig =
           [cloudWatchMetricsEnabled |-> TRUE,
            sampledRequestsEnabled |-> TRUE,
            metricName |->
              IF Get(mrgCall).factory = "thirdParty"
              THEN "WAF-" \o Get(mrgCall).vendor \o "-" \o Get(mrgCall).ruleName
              ELSE "WAF-" \o Get(mrgCall).ruleName]
    /\ IsSome(mrgProps.visibilityConfig) =>
         Get(mrgRule).visibilityConfig = mrgProps.visibilityConfig[1]

\* A factory has been called with a name of the caller's and no
\* visibilityConfig.
C18_Witness ==
  /\ IsSome(mrgRule)
  /\ IsSome(mrgProps.name)
  /\ ~IsSome(mrgProps.visibilityConfig)
  /\ Get(mrgRule).visibilityConfig.metricName = "WAF-AWSManagedRulesBotControlRuleSet"

\* C19: an AWS-curated factory hands excludedRules, scopeDownStatement,
\* version and managedRuleGroupConfigs on to the managed rule group statement
\* unchanged, each one absent when it was not given; the core rule set built
\* with excludedRules = [{name: "SizeRestrictions_BODY"}] lists exactly that
\* one excluded rule and has no scopeDownStatement.
C19_AwsFactoryPassesOptions ==
  (IsSome(mrgCall) /\ Get(mrgCall).factory # "thirdParty") =>
    LET st == Get(mrgRule).statement.managedRuleGroupStatement IN
    /\ st.vendorName = "AWS"
    /\ st.name = Get(mrgCall).ruleName
    /\ st.excludedRules = mrgProps.excludedRules
    /\ st.scopeDownStatement = mrgProps.scopeDownStatement
    /\ st.version = mrgProps.version
    /\ st.managedRuleGroupConfigs = mrgProps.managedRuleGroupConfigs
    /\ (/\ Get(mrgCall).factory = "coreRuleSet"
        /\ mrgProps.excludedRules = << << [name |-> "SizeRestrictions_BODY"] >> >>
        /\ mrgProps.scopeDownStatement = <<>>)
         => /\ st.name = "AWSManagedRulesCommonRuleSet"
            /\ st.excludedRules = << << [name |-> "SizeRestrictions_BODY"] >> >>
            /\ st.scopeDownStatement = <<>>

\* coreRuleSet has been called with the one excluded rule and no scope-down
\* statement.
C19_Witness ==
  /\ IsSome(mrgCall)
  /\ Get(mrgCall).factory = "coreRuleSet"
  /\ mrgProps.excludedRules = << << [name |-> "SizeRestrictions_BODY"] >> >>
  /\ mrgProps.scopeDownStatement = <<>>
  /\ mrgProps.version = <<>>

(***************************************************************************)
(* SpecAction: a host program that holds a custom request handling and a   *)
(* custom response and hands them to the RuleAction and DefaultAction      *)
(* factories.                                                              *)
(***************************************************************************)
CustomHeaders == {"x-first", "x-second"}

CustomRequestHandlings ==
  {[insertHeaders |-> h] : h \in SeqUpTo(CustomHeaders, 2) \ {<<>>}}

CustomResponses == {[responseCode |-> c] : c \in {403, 418}}

ActionInputs ==
  [customRequestHandling : Option(CustomRequestHandlings),
   customResponse : Option(CustomResponses)]

InitAction ==
  /\ EmptyStack
  /\ mrgProps = NoProps
  /\ actionInput \in ActionInputs
  /\ callProps = None

\* A call of an action factory: the host program keeps the value returned.
CallActionFactory(factory, value) ==
  /\ actionValue' = Some(value)
  /\ lastCall' = factory
  /\ thrown' = "none"
  /\ UNCHANGED <<tree, webAcls, associations, distributionWebACLId,
                 loggingConfigurations, logDestinations, mrgProps, mrgCall,
                 mrgRule, ruleGroups, actionInput,
                 callProps, callReturned, ruleObjects>>

CallRuleActionAllow ==
  CallActionFactory("RuleAction.allow",
                    RuleActionAllow(actionInput.customRequestHandling))
CallRuleActionBlock ==
  CallActionFactory("RuleAction.block",
                    RuleActionBlock(actionInput.customResponse))
CallRuleActionCount ==
  CallActionFactory("RuleAction.count",
                    RuleActionCount(actionInput.customRequestHandling))
CallRuleActionCaptcha ==
  CallActionFactory("RuleAction.captcha",
                    RuleActionCaptcha(actionInput.customRequestHandling))
CallDefaultActionAllow ==
  CallActionFactory("DefaultAction.allow",
                    DefaultActionAllow(actionInput.customRequestHandling))
CallDefaultActionBlock ==
  CallActionFactory("DefaultAction.block",
                    DefaultActionBlock(actionInput.customResponse))

NextAction ==
  \/ CallRuleActionAllow
  \/ CallRuleActionBlock
  \/ CallRuleActionCount
  \/ CallRuleActionCaptcha
  \/ CallDefaultActionAllow
  \/ CallDefaultActionBlock

SpecAction == InitAction /\ [][NextAction]_vars

\* The keys an action value has.
KeysPresent(v) == {k \in DOMAIN v : IsSome(v[k])}

\* C20: every RuleAction and DefaultAction factory returns a value with
\* exactly one variant active: the RuleAction factories allow, block, count
\* and captcha each return a record with exactly one of the keys allow,
\* block, count and captcha, its own; the DefaultAction factories allow and
\* block each return a record with exactly one of the keys allow and block.
C20_ExactlyOneVariant ==
  IsSome(actionValue) =>
    LET v == Get(actionValue) IN
    /\ Cardinality(KeysPresent(v)) = 1
    /\ lastCall \in {"RuleAction.allow", "RuleAction.block",
                     "RuleAction.count", "RuleAction.captcha"}
         => KeysPresent(v) \subseteq {"allow", "block", "count", "captcha"}
    /\ lastCall \in {"DefaultAction.allow", "DefaultAction.block"}
         => /\ KeysPresent(v) \subseteq {"allow", "block"}
            /\ DOMAIN v = {"allow", "block"}
    /\ lastCall \in {"RuleAction.allow", "DefaultAction.allow"}
         => KeysPresent(v) = {"allow"}
    /\ lastCall \in {"RuleAction.block", "DefaultAction.block"}
         => KeysPresent(v) = {"block"}
    /\ lastCall = "RuleAction.count" => KeysPresent(v) = {"count"}
    /\ lastCall = "RuleAction.captcha" => KeysPresent(v) = {"captcha"}

\* captcha has been called with a custom request handling.
C20_Witness ==
  /\ lastCall = "RuleAction.captcha"
  /\ IsSome(actionValue)
  /\ IsSome(actionInput.customRequestHandling)

(***************************************************************************)
(* SpecStatement: a host program that holds one GeoMatchProps object and   *)
(* hands it to Statement.geoMatch.                                         *)
(***************************************************************************)
CountryCodes == {"US", "CA"}

ForwardedIPConfigurations ==
  [fallbackBehavior : {"MATCH", "NO_MATCH"}, headerName : {"X-Forwarded-For"}]

GeoMatchPropsInputs ==
  [countryCodes : SeqUpTo(CountryCodes, MaxCountryCodes),
   negate : Option(BOOLEAN),
   forwardedIpConfiguration : Option(ForwardedIPConfigurations)]

InitStatement ==
  /\ EmptyStack
  /\ mrgProps = NoProps
  /\ actionInput = NoActionInput
  /\ callProps \in GeoMatchPropsInputs

\* Statement.geoMatch(callProps)
CallGeoMatch ==
  /\ callReturned' = Some(geoMatch(callProps))
  /\ lastCall' = "Statement.geoMatch"
  /\ thrown' = "none"
  /\ UNCHANGED <<tree, webAcls, associations, distributionWebACLId,
                 loggingConfigurations, logDestinations, mrgProps, mrgCall,
                 mrgRule, ruleGroups, actionInput, actionValue, callProps,
                 ruleObjects>>

NextStatement == CallGeoMatch

SpecStatement == InitStatement /\ [][NextStatement]_vars

\* C23: Statement.geoMatch called with an empty countryCodes list raises a
\* validation error and returns no statement.
C23_GeoMatchRejectsNoCountry ==
  (lastCall = "Statement.geoMatch" /\ callProps.countryCodes = <<>>) =>
    /\ thrown # "none"
    /\ ~IsSome(callReturned)

\* C26: Statement.geoMatch preserves its whole input: the GeoMatch node
\* carries the given country codes; a forwardedIpConfiguration that is given
\* is nested inside the GeoMatch node and none of its keys lies beside the
\* node; negate = true yields a statement that differs from the one returned
\* for negate = false and for no negate.
C26_GeoMatchPreservesInput ==
  lastCall = "Statement.geoMatch" =>
    LET st == Get(callReturned) IN
    /\ st.GeoMatchStatement.CountryCodes = callProps.countryCodes
    /\ st.GeoMatchStatement.ForwardedIPConfig
         = callProps.forwardedIpConfiguration
    /\ ~IsSome(st.fallbackBehavior)
    /\ ~IsSome(st.headerName)
    /\ callProps.negate = <<TRUE>> =>
         /\ st # geoMatch([callProps EXCEPT !.negate = <<FALSE>>])
         /\ st # geoMatch([callProps EXCEPT !.negate = <<>>])

(***************************************************************************)
(* SpecRule: a host program that holds the props of a rule and hands them  *)
(* to Rule.regular or Rule.rateBased.                                      *)
(***************************************************************************)
\* The statements the host program has built with Statement.geoMatch.
StatementPool ==
  << geoMatch([countryCodes |-> <<"US">>, negate |-> Some(TRUE),
               forwardedIpConfiguration |-> None]),
     geoMatch([countryCodes |-> <<"CA">>, negate |-> None,
               forwardedIpConfiguration |-> None]) >>

\* The props of the README's regular rules.
RegularPropsInputs ==
  [name : {"regularRule"},
   action : {RuleActionBlock(None), RuleActionAllow(None)},
   matchLogic : MatchLogic,
   statements : SeqUpTo(1..Len(StatementPool), MaxStatements)]

\* The props of the README's rate-based rule, with good and bad limits.
RateBasedPropsInputs ==
  [name : {"rateBasedRule"},
   maximumRequestsInFiveMinutes : {-1, 0, 500},
   action : {RuleActionBlock(None), RuleActionCount(None)}]

InitRule ==
  /\ EmptyStack
  /\ mrgProps = NoProps
  /\ actionInput = NoActionInput
  /\ callProps \in RegularPropsInputs \cup RateBasedPropsInputs

\* Rule.regular(callProps)
CallRegular ==
  /\ callProps \in RegularPropsInputs
  /\ callReturned' = regular(callProps)
  /\ lastCall' = "Rule.regular"
  /\ thrown' = "none"
  /\ UNCHANGED <<tree, webAcls, associations, distributionWebACLId,
                 loggingConfigurations, logDestinations, mrgProps, mrgCall,
                 mrgRule, ruleGroups, actionInput, actionValue, callProps,
                 ruleObjects>>

\* Rule.rateBased(callProps)
CallRateBased ==
  /\ callProps \in RateBasedPropsInputs
  /\ callReturned' = rateBased(callProps)
  /\ lastCall' = "Rule.rateBased"
  /\ thrown' = "none"
  /\ UNCHANGED <<tree, webAcls, associations, distributionWebACLId,
                 loggingConfigurations, logDestinations, mrgProps, mrgCall,
                 mrgRule, ruleGroups, actionInput, actionValue, callProps,
                 ruleObjects>>

NextRule == CallRegular \/ CallRateBased

SpecRule == InitRule /\ [][NextRule]_vars

\* C21: a rule built with match logic ONE and two statements fails at
\* construction; one built with match logic ONE and exactly one statement
\* succeeds and yields a rule.
C21_MatchOneTakesOneStatement ==
  (lastCall = "Rule.regular" /\ callProps.matchLogic = "MATCH_ONE") =>
    /\ Len(callProps.statements) = 2 =>
         (thrown # "none" /\ ~IsSome(callReturned))
    /\ Len(callProps.statements) = 1 =>
         (thrown = "none" /\ IsSome(callReturned))

\* C22: Rule.rateBased with a limit of 500 and the action Block returns a
\* rule whose statement is a rate limit of 500 and whose action is Block; a
\* limit that is not positive is rejected.
C22_RateBasedYieldsRateLimit ==
  lastCall = "Rule.rateBased" =>
    /\ (/\ callProps.maximumRequestsInFiveMinutes = 500
        /\ IsSome(callProps.action.block)) =>
         /\ thrown = "none"
         /\ IsSome(callReturned)
         /\ Get(callReturned).statement.rateBasedStatement.limit = 500
         /\ IsSome(Get(callReturned).action.block)
    /\ callProps.maximumRequestsInFiveMinutes <= 0 =>
         (thrown # "none" /\ ~IsSome(callReturned))

(***************************************************************************)
(* rule-group.ts: RuleGroup                                                *)
(***************************************************************************)
\* The custom rules the host program has built (rule1 and rule2 of the
\* README), and the capacity each one costs: the cost table is the external
\* service's and is no part of the library.  A rule as the host program built
\* it has no priority key.
CustomRulePool ==
  << [name |-> "rule1", priority |-> None],
     [name |-> "rule2", priority |-> None] >>
CustomRuleRefs == 1..Len(CustomRulePool)
RuleCost == <<1, 2>>

RECURSIVE SumCost(_)
SumCost(rules) ==
  IF rules = <<>> THEN 0 ELSE RuleCost[Head(rules)] + SumCost(Tail(rules))

\* The capacity the rules of a rule group need: the sum of their costs.
computeCapacity(rules) == IF IsSome(rules) THEN SumCost(Get(rules)) ELSE 0

\* new RuleGroup(stack, id, props).  props.capacity and props.rules go to the
\* CfnRuleGroup as they are; a capacity the caller left out is undefined.
NewRuleGroup(id, props) ==
  IF ~CanAddChild(<<id>>)
  THEN /\ thrown' = "There is already a Construct with name"
       /\ UNCHANGED <<tree, ruleGroups>>
  ELSE /\ tree' = tree \cup {<<id>>, <<id, "Resource">>}
       /\ ruleGroups' = [x \in DOMAIN ruleGroups \cup {id} |->
            IF x = id
            THEN [props |-> props,
                  resource |->
                    [capacity |-> props.capacity,
                     scope |-> props.scope,
                     visibilityConfig |-> props.visibilityConfig,
                     rules |-> IF IsSome(props.rules)
                               THEN Some([i \in 1..Len(Get(props.rules)) |->
                                            CustomRulePool[Get(props.rules)[i]]])
                               ELSE None]]
            ELSE ruleGroups[x]]
       /\ thrown' = "none"

(***************************************************************************)
(* SpecRuleGroup: a host program that builds RuleGroups.                   *)
(***************************************************************************)
RuleGroupIds == {"RuleGroup", "RuleGroup2"}

RuleGroupPropsInputs ==
  [capacity : Option(1..MaxCapacity),
   scope : Scope,
   visibilityConfig : {DefaultVisibility("RuleGroupMetric")},
   rules : Option(SeqUpTo(CustomRuleRefs, MaxRules))]

CreateRuleGroup ==
  /\ \E id \in RuleGroupIds, props \in RuleGroupPropsInputs :
       NewRuleGroup(id, props)
  /\ lastCall' = "new RuleGroup"
  /\ UNCHANGED <<webAcls, associations, distributionWebACLId,
                 loggingConfigurations, logDestinations, mrgProps, mrgCall,
                 mrgRule,
                 actionInput, actionValue,
                 callProps, callReturned, ruleObjects>>

NextRuleGroup == CreateRuleGroup

SpecRuleGroup == Init /\ [][NextRuleGroup]_vars

\* C10: constructing a RuleGroup with an explicit capacity below the capacity
\* sum of its rules fails, so no emitted rule group has a capacity below that
\* sum; with a capacity of at least the sum the rule group is emitted with the
\* explicit capacity unchanged.
C10_CapacityBelowSumFails ==
  \A id \in DOMAIN ruleGroups :
    IsSome(ruleGroups[id].props.capacity) =>
      /\ Get(ruleGroups[id].resource.capacity)
           >= computeCapacity(ruleGroups[id].props.rules)
      /\ ruleGroups[id].resource.capacity = ruleGroups[id].props.capacity

\* C11: a RuleGroup constructed without a capacity is emitted with the sum of
\* the capacity costs of its rules as its capacity.
C11_DefaultCapacityIsSum ==
  \A id \in DOMAIN ruleGroups :
    ~IsSome(ruleGroups[id].props.capacity) =>
      ruleGroups[id].resource.capacity
        = Some(computeCapacity(ruleGroups[id].props.rules))

\* C12: a RuleGroup assigns priorities by declaration order as a WebACL does:
\* the i-th rule of the rules sequence it was given is emitted with priority
\* i (zero-based).
C12_RuleGroupPriorityIsIndex ==
  \A id \in DOMAIN ruleGroups :
    IsSome(ruleGroups[id].resource.rules) =>
      \A i \in 1..Len(Get(ruleGroups[id].resource.rules)) :
        Get(ruleGroups[id].resource.rules)[i].priority = Some(i - 1)

=============================================================================
